---- MODULE Spec2Model ----
(***************************************************************************)
(* A model of the resumable film-generation pipeline of short_film:        *)
(* FilmGenerator (generator.py), StateManager (state.py), the data models  *)
(* (models.py) and generate_clip (video_gen.py).  The collaborators that   *)
(* reach outside the process (image generation, the video provider, frame  *)
(* extraction, ffmpeg) are nondeterministic: each call returns or raises.  *)
(***************************************************************************)
EXTENDS Integers, Sequences, FiniteSets, TLC

VARIABLES
    pc,        \* position of the process in FilmGenerator.__init__ / generate
    config,    \* self.config
    state,     \* self.state (FilmState), NoState while no generator exists
    i,         \* index (1-based here) of the clip loop of _generate_clips
    attempt,   \* tenacity attempt number inside generate_video_*
    disk,      \* contents of <output_dir>/state.json, Absent if no file
    files,     \* names of the media files that exist under output_dir
    run,       \* number of FilmGenerator runs started so far
    log,       \* what this run did so far (calls made, their arguments)
    loaded     \* result of the last StateManager.load()

vars == <<pc, config, state, i, attempt, disk, files, run, log, loaded>>

-----------------------------------------------------------------------------
(* Bounds of the model *)

MaxClips == 3
MaxRuns == 2

(* Program constants *)

DefaultClipDuration == 10
MaxAttempts == 3

-----------------------------------------------------------------------------
(* Python values.  In memory: None, pathlib.Path, str, Enum members.       *)
(* In the JSON document: null and strings.                                 *)

NoneV == [t |-> "None"]
PathV(s) == [t |-> "Path", s |-> s]
StrV(s) == [t |-> "str", s |-> s]
EnumV(cls, v) == [t |-> cls, s |-> v]

JNull == [t |-> "null"]
JStr(s) == [t |-> "jstr", s |-> s]

\* bool(v) for the values the code tests: None and "" are falsy, a Path is
\* always truthy.
Truthy(v) == v # NoneV /\ v # StrV("")

PENDING == EnumV("ClipStatus", "pending")
GENERATING == EnumV("ClipStatus", "generating")
COMPLETED == EnumV("ClipStatus", "completed")
FAILED == EnumV("ClipStatus", "failed")
ClipStatus == {PENDING, GENERATING, COMPLETED, FAILED}

OPENAI == EnumV("VideoProvider", "openai")
GEMINI == EnumV("VideoProvider", "gemini")
VideoProvider == {OPENAI, GEMINI}

FilmStyle == {EnumV("FilmStyle", v) : v \in {"cinematic", "noir", "anime",
                 "documentary", "scifi", "fantasy", "horror", "comedy"}}
MusicVibe == {EnumV("MusicVibe", v) : v \in {"epic", "suspenseful", "calm",
                 "upbeat", "dark", "whimsical", "none"}}

\* VideoClip(index=, prompt=, duration=, output_path=), the other fields at
\* their defaults.
VideoClip(index, prompt, duration, output_path) ==
    [index |-> index, status |-> PENDING, prompt |-> prompt,
     start_image_path |-> NoneV, output_path |-> output_path,
     last_frame_path |-> NoneV, duration |-> duration, error |-> NoneV]

FilmConfig(premise, style, music_vibe, target_duration, clip_duration, provider, openai_api_key, gemini_api_key) ==
    [premise |-> premise, style |-> style, music_vibe |-> music_vibe,
     target_duration |-> target_duration, clip_duration |-> clip_duration,
     provider |-> provider, openai_api_key |-> openai_api_key,
     gemini_api_key |-> gemini_api_key]

\* FilmState(config=, output_dir=, clips=), the other fields at their
\* defaults.
FilmState(cfg, output_dir, clips) ==
    [config |-> cfg, output_dir |-> output_dir, starting_frame_path |-> NoneV,
     clips |-> clips, final_video_path |-> NoneV, completed |-> FALSE]

NoState == [t |-> "NoState"]
Absent == [t |-> "Absent"]
\* a state.json that json.load or model_validate rejects
Corrupt == [t |-> "Corrupt"]
\* the exception json.load or model_validate raises
LoadError == [t |-> "LoadError"]
OutputDir == PathV("output")

-----------------------------------------------------------------------------
(* File names under output_dir *)

ClipFile(idx) == "clip_" \o ToString(idx) \o ".mp4"
LastFrameFile(idx) == "clip_" \o ToString(idx) \o "_last_frame.png"
StartingFrameFile == "starting_frame.png"
FinalFilmFile == "final_film.mp4"

-----------------------------------------------------------------------------
(* video_gen.create_video_prompt *)

\* a continuation framing that names the 0-based index
create_video_prompt_ZeroBased(premise, clip_index, total_clips) ==
    IF clip_index = 0
    THEN StrV(premise.s \o ". Opening scene, establishing shot. Smooth camera movement.")
    ELSE IF clip_index = total_clips - 1
    THEN StrV(premise.s \o ". Final scene, resolution. Dramatic conclusion.")
    ELSE StrV(premise.s \o ". Continuing the story (scene " \o ToString(clip_index)
              \o "). Build tension and progression.")

create_video_prompt(premise, clip_index, total_clips) ==
    IF clip_index = 0
    THEN StrV(premise.s \o ". Opening scene, establishing shot. Smooth camera movement.")
    ELSE IF clip_index = total_clips - 1
    THEN StrV(premise.s \o ". Final scene, resolution. Dramatic conclusion.")
    ELSE StrV(premise.s \o ". Continuing the story (scene " \o ToString(clip_index + 1)
              \o "). Build tension and progression.")

-----------------------------------------------------------------------------
(* StateManager: model_dump(mode="json") + json.dump, and json.load +      *)
(* FilmState.model_validate.                                               *)

DumpOpt(v) == IF v = NoneV THEN JNull ELSE JStr(v.s)

DumpClip(c) ==
    [index |-> c.index, status |-> JStr(c.status.s), prompt |-> JStr(c.prompt.s),
     start_image_path |-> DumpOpt(c.start_image_path),
     output_path |-> DumpOpt(c.output_path),
     last_frame_path |-> DumpOpt(c.last_frame_path),
     duration |-> c.duration, error |-> DumpOpt(c.error)]

DumpConfig(c) ==
    [premise |-> JStr(c.premise.s), style |-> JStr(c.style.s),
     music_vibe |-> JStr(c.music_vibe.s),
     target_duration |-> c.target_duration, clip_duration |-> c.clip_duration,
     provider |-> JStr(c.provider.s),
     openai_api_key |-> DumpOpt(c.openai_api_key),
     gemini_api_key |-> DumpOpt(c.gemini_api_key)]

model_dump(s) ==
    [config |-> DumpConfig(s.config), output_dir |-> JStr(s.output_dir.s),
     starting_frame_path |-> DumpOpt(s.starting_frame_path),
     clips |-> [k \in DOMAIN s.clips |-> DumpClip(s.clips[k])],
     final_video_path |-> DumpOpt(s.final_video_path),
     completed |-> s.completed]

ValidateOptPath(j) == IF j = JNull THEN NoneV ELSE PathV(j.s)
ValidateOptStr(j) == IF j = JNull THEN NoneV ELSE StrV(j.s)

\* a validation that falls back to the default of the error field
ValidateClip_NoError(d) ==
    [index |-> d.index, status |-> EnumV("ClipStatus", d.status.s),
     prompt |-> StrV(d.prompt.s),
     start_image_path |-> ValidateOptPath(d.start_image_path),
     output_path |-> ValidateOptPath(d.output_path),
     last_frame_path |-> ValidateOptPath(d.last_frame_path),
     duration |-> d.duration, error |-> NoneV]

ValidateClip(d) ==
    [index |-> d.index, status |-> EnumV("ClipStatus", d.status.s),
     prompt |-> StrV(d.prompt.s),
     start_image_path |-> ValidateOptPath(d.start_image_path),
     output_path |-> ValidateOptPath(d.output_path),
     last_frame_path |-> ValidateOptPath(d.last_frame_path),
     duration |-> d.duration, error |-> ValidateOptStr(d.error)]

ValidateConfig(d) ==
    [premise |-> StrV(d.premise.s), style |-> EnumV("FilmStyle", d.style.s),
     music_vibe |-> EnumV("MusicVibe", d.music_vibe.s),
     target_duration |-> d.target_duration, clip_duration |-> d.clip_duration,
     provider |-> EnumV("VideoProvider", d.provider.s),
     openai_api_key |-> ValidateOptStr(d.openai_api_key),
     gemini_api_key |-> ValidateOptStr(d.gemini_api_key)]

model_validate(d) ==
    [config |-> ValidateConfig(d.config), output_dir |-> PathV(d.output_dir.s),
     starting_frame_path |-> ValidateOptPath(d.starting_frame_path),
     clips |-> [k \in DOMAIN d.clips |-> ValidateClip(d.clips[k])],
     final_video_path |-> ValidateOptPath(d.final_video_path),
     completed |-> d.completed]

\* StateManager.save: the document written to state.json
save(s) == model_dump(s)

\* a load that takes an unreadable document for no document
load_Lenient(d) ==
    IF d = Absent \/ d = Corrupt THEN NoneV ELSE model_validate(d)

\* StateManager.load: None if the file does not exist; the exception of
\* json.load / model_validate if the document cannot be deserialized
load(d) ==
    IF d = Absent THEN NoneV
    ELSE IF d = Corrupt THEN LoadError
    ELSE model_validate(d)

\* StateManager.clear
\* a clear that leaves the document in place
clear_Keep(d) == d

clear(d) == Absent

-----------------------------------------------------------------------------
(* FilmGenerator._create_new_state *)

\* math.ceil(a / b) for b # 0
Ceil(a, b) == IF b > 0 THEN -((-a) \div b) ELSE -(a \div (-b))

\* range(n) as the 1-based index set of a list of that length
RangeLen(n) == IF n > 0 THEN n ELSE 0

create_new_state(cfg) ==
    LET num_clips == Ceil(cfg.target_duration, cfg.clip_duration)
    IN  FilmState(cfg, OutputDir,
            [k \in 1..RangeLen(num_clips) |->
                VideoClip(k - 1, StrV(""), cfg.clip_duration, PathV(ClipFile(k - 1)))])

-----------------------------------------------------------------------------
(* Inputs of the runs: the configs a caller may pass to FilmGenerator.     *)

\* (provider, openai_api_key, gemini_api_key) as config.load_api_keys finds
\* them in the environment
BothKeys(provider) == <<provider, StrV("sk-openai"), StrV("gm-key")>>
OpenAIKeyOnly(provider) == <<provider, StrV("sk-openai"), NoneV>>
NoKeys(provider) == <<provider, NoneV, NoneV>>

Config(premise, target_duration, cr) ==
    FilmConfig(StrV(premise), EnumV("FilmStyle", "cinematic"), EnumV("MusicVibe", "epic"),
               target_duration, DefaultClipDuration, cr[1], cr[2], cr[3])

RunConfigs ==
    { Config("A robot", DefaultClipDuration * MaxClips, BothKeys(OPENAI)),
      Config("A whale", DefaultClipDuration * (MaxClips - 1), OpenAIKeyOnly(GEMINI)),
      Config("A robot", DefaultClipDuration, NoKeys(OPENAI)),
      Config("A whale", -15, BothKeys(GEMINI)) }

-----------------------------------------------------------------------------
(* The record of what the current run did: the calls it made to its        *)
(* collaborators, with their arguments, and how it ended.                  *)

\* the clips (list positions) a run finds completed with their file present
DoneAt(st, fs) ==
    IF st = NoState THEN {}
    ELSE {k \in DOMAIN st.clips :
            /\ st.clips[k].status = COMPLETED
            /\ st.clips[k].output_path # NoneV
            /\ st.clips[k].output_path.s \in fs}

NewLog(resumed, st, fs) ==
    [resumed |-> resumed,       \* resume was set and state.json existed
     kept0 |-> [k \in DoneAt(st, fs) |-> st.clips[k]],
                                \* the clips found completed with their file
     frame0 |-> st # NoState /\ Truthy(st.starting_frame_path),
                                \* the starting frame was set at the start
     imgCalls |-> 0,            \* calls of generate_image_openai
     genCalls |-> <<>>,         \* clip indices passed to generate_clip
     adapterCalls |-> <<>>,     \* [index, seed] of each generate_fn call
     skipped |-> {},            \* clip indices the loop skipped
     stitchCalls |-> <<>>,      \* the lists passed to stitch_videos
     concat |-> "none",         \* outcome of stitch_videos
     reported |-> -1,           \* len(failed_clips) of the summary
     raised |-> "none"]         \* the exception generate() raised

-----------------------------------------------------------------------------
(* FilmGenerator.__init__ *)

\* a constructor that recomputes the clips from the current config on resume
InitState_Recreate(cfg, resume, d) ==
    IF cfg.clip_duration = 0 THEN NoState ELSE create_new_state(cfg)

\* the state __init__ builds; NoState when load() raises or when
\* _create_new_state raises (ZeroDivisionError)
InitState(cfg, resume, d) ==
    LET existing_state == IF resume THEN load(d) ELSE NoneV
    IN  IF existing_state = LoadError THEN NoState
        ELSE IF existing_state # NoneV
        THEN [existing_state EXCEPT !.config = cfg]
        ELSE IF cfg.clip_duration = 0 THEN NoState
        ELSE create_new_state(cfg)

Construct(cfg, resume) ==
    /\ pc \in {"idle", "done", "failed"}
    /\ run < MaxRuns
    /\ run' = run + 1
    /\ config' = cfg
    /\ state' = InitState(cfg, resume, disk)
    /\ pc' = IF state' = NoState THEN "failed" ELSE "generate"
    /\ log' = [NewLog(resume /\ disk # Absent, state', files)
                 EXCEPT !.raised = IF resume /\ load(disk) = LoadError THEN "load"
                                   ELSE IF state' = NoState THEN "init"
                                   ELSE "none"]
    /\ i' = 0
    /\ attempt' = 0
    /\ UNCHANGED <<disk, files, loaded>>

-----------------------------------------------------------------------------
(* FilmGenerator.generate, step 1: the starting frame *)

\* except Exception: self._save_state(); raise
\* an except handler that re-raises without saving
Raise_NoSave(st, kind) ==
    /\ state' = st
    /\ disk' = disk
    /\ pc' = "failed"
    /\ log' = [log EXCEPT !.raised = kind]

Raise(st, kind) ==
    /\ state' = st
    /\ disk' = save(st)
    /\ pc' = "failed"
    /\ log' = [log EXCEPT !.raised = kind]

StartingFrameSkip ==
    /\ pc = "generate"
    /\ Truthy(state.starting_frame_path)
    /\ pc' = "clips"
    /\ i' = 1
    /\ UNCHANGED <<config, state, attempt, disk, files, run, log, loaded>>

\* image_gen.generate_starting_frame raises ValueError before any request
StartingFrameNoKey ==
    /\ pc = "generate"
    /\ ~Truthy(state.starting_frame_path)
    /\ ~Truthy(config.openai_api_key)
    /\ Raise(state, "ValueError")
    /\ UNCHANGED <<config, i, attempt, files, run, loaded>>

\* a starting frame that is set in memory and not saved
StartingFrameOk_NoSave ==
    /\ pc = "generate"
    /\ ~Truthy(state.starting_frame_path)
    /\ Truthy(config.openai_api_key)
    /\ state' = [state EXCEPT !.starting_frame_path = PathV(StartingFrameFile)]
    /\ files' = files \cup {StartingFrameFile}
    /\ disk' = disk
    /\ log' = [log EXCEPT !.imgCalls = @ + 1]
    /\ pc' = "clips"
    /\ i' = 1
    /\ UNCHANGED <<config, attempt, run, loaded>>

StartingFrameOk ==
    /\ pc = "generate"
    /\ ~Truthy(state.starting_frame_path)
    /\ Truthy(config.openai_api_key)
    /\ state' = [state EXCEPT !.starting_frame_path = PathV(StartingFrameFile)]
    /\ files' = files \cup {StartingFrameFile}
    /\ disk' = save(state')
    /\ log' = [log EXCEPT !.imgCalls = @ + 1]
    /\ pc' = "clips"
    /\ i' = 1
    /\ UNCHANGED <<config, attempt, run, loaded>>

\* a starting-frame failure that is tolerated: the run goes on to the clips
StartingFrameFail_Continue ==
    /\ pc = "generate"
    /\ ~Truthy(state.starting_frame_path)
    /\ Truthy(config.openai_api_key)
    /\ state' = state
    /\ disk' = save(state)
    /\ pc' = "clips"
    /\ i' = 1
    /\ log' = [log EXCEPT !.imgCalls = @ + 1, !.raised = "image"]
    /\ UNCHANGED <<config, attempt, files, run, loaded>>

StartingFrameFail ==
    /\ pc = "generate"
    /\ ~Truthy(state.starting_frame_path)
    /\ Truthy(config.openai_api_key)
    /\ state' = state
    /\ disk' = save(state)
    /\ pc' = "failed"
    /\ log' = [log EXCEPT !.imgCalls = @ + 1, !.raised = "image"]
    /\ UNCHANGED <<config, i, attempt, files, run, loaded>>

-----------------------------------------------------------------------------
(* FilmGenerator._generate_clips *)

\* a skip test that never skips
ShouldSkip_Never(clip, fs) == FALSE

\* a skip test that trusts the checkpointed status alone
ShouldSkip_StatusOnly(clip, fs) == clip.status = COMPLETED

\* the skip test of the loop: completed, output_path set, and the file exists
ShouldSkip(clip, fs) ==
    clip.status = COMPLETED /\ Truthy(clip.output_path) /\ clip.output_path.s \in fs

\* a seed rule that chains every clip from the starting frame
SeedImage_StartingFrame(st, k) == st.starting_frame_path

\* clip.start_image_path after "Set starting image", for the clip at list
\* position k (clip index k - 1)
SeedImage(st, k) ==
    IF k = 1 THEN st.starting_frame_path
    ELSE IF Truthy(st.clips[k - 1].last_frame_path)
         THEN st.clips[k - 1].last_frame_path
         ELSE st.clips[k].start_image_path

\* a prompt that is rebuilt from the current premise at every submission
ClipPrompt_Always(st, cfg, k) ==
    create_video_prompt(cfg.premise, st.clips[k].index, Len(st.clips))

\* the prompt after "Update prompt if not set"
ClipPrompt(st, cfg, k) ==
    IF ~Truthy(st.clips[k].prompt)
    THEN create_video_prompt(cfg.premise, st.clips[k].index, Len(st.clips))
    ELSE st.clips[k].prompt

\* the api key generate_clip selects for the provider
ApiKey(cfg) ==
    IF cfg.provider = OPENAI THEN cfg.openai_api_key ELSE cfg.gemini_api_key

KeyError(cfg) ==
    IF cfg.provider = OPENAI THEN StrV("OpenAI API key required")
    ELSE StrV("Gemini API key required")

\* a clip failure that propagates out of the loop
AfterClipFailure_Abort == "failed"

\* the loop position after the except branch of the clip's try statement
AfterClipFailure == "clips"

\* a failure branch that records the message and leaves the status as it is
ClipFails_KeepStatus(err) ==
    /\ state' = [state EXCEPT !["clips"][i].error = err]
    /\ disk' = save(state')
    /\ pc' = AfterClipFailure
    /\ log' = log
    /\ i' = i + 1
    /\ attempt' = 0

\* a failure branch after which the loop takes the same clip again
ClipFails_Retry(err) ==
    /\ state' = [state EXCEPT !["clips"][i].status = FAILED,
                              !["clips"][i].error = err]
    /\ disk' = save(state')
    /\ pc' = AfterClipFailure
    /\ log' = log
    /\ i' = i
    /\ attempt' = 0

\* a failure branch without the save of the finally block
ClipFails_NoSave(err) ==
    /\ state' = [state EXCEPT !["clips"][i].status = FAILED,
                              !["clips"][i].error = err]
    /\ disk' = disk
    /\ pc' = AfterClipFailure
    /\ log' = log
    /\ i' = i + 1
    /\ attempt' = 0

\* a failure branch that marks the clip failed without its message
ClipFails_NoError(err) ==
    /\ state' = [state EXCEPT !["clips"][i].status = FAILED]
    /\ disk' = save(state')
    /\ pc' = AfterClipFailure
    /\ log' = log
    /\ i' = i + 1
    /\ attempt' = 0

\* except Exception as e: status = FAILED, error = str(e); finally: save
ClipFails(err) ==
    /\ state' = [state EXCEPT !["clips"][i].status = FAILED,
                              !["clips"][i].error = err]
    /\ disk' = save(state')
    /\ pc' = AfterClipFailure
    /\ IF pc' = "failed"
       THEN log' = [log EXCEPT !.raised = "clip"] /\ i' = i
       ELSE log' = log /\ i' = i + 1
    /\ attempt' = 0

ClipSkip ==
    /\ pc = "clips"
    /\ i \in 1..Len(state.clips)
    /\ ShouldSkip(state.clips[i], files)
    /\ i' = i + 1
    /\ log' = [log EXCEPT !.skipped = @ \cup {state.clips[i].index}]
    /\ UNCHANGED <<pc, config, state, attempt, disk, files, run, loaded>>

\* lines 162-184: prompt, seed image, status GENERATING, call generate_clip
ClipSubmit ==
    /\ pc = "clips"
    /\ i \in 1..Len(state.clips)
    /\ ~ShouldSkip(state.clips[i], files)
    /\ state' = [state EXCEPT !["clips"][i].prompt = ClipPrompt(state, config, i),
                              !["clips"][i].start_image_path = SeedImage(state, i),
                              !["clips"][i].status = GENERATING]
    /\ log' = [log EXCEPT !.genCalls = Append(@, state.clips[i].index)]
    /\ pc' = "generate_clip"
    /\ UNCHANGED <<config, i, attempt, disk, files, run, loaded>>

\* generate_clip raises ValueError before calling generate_fn
CredentialMissing ==
    /\ pc = "generate_clip"
    /\ ~Truthy(ApiKey(config))
    /\ ClipFails(KeyError(config))
    /\ UNCHANGED <<config, files, run, loaded>>

\* generate_clip calls generate_fn(prompt, api_key, output_path,
\* start_image_path, duration): the first attempt starts
AdapterInvoke ==
    /\ pc = "generate_clip"
    /\ Truthy(ApiKey(config))
    /\ pc' = "adapter"
    /\ attempt' = 1
    /\ log' = [log EXCEPT !.adapterCalls =
                 Append(@, [index |-> state.clips[i].index,
                            seed |-> state.clips[i].start_image_path,
                            prompt |-> state.clips[i].prompt])]
    /\ UNCHANGED <<config, state, i, disk, files, run, loaded>>

\* a wrapper whose attempt counter starts over after the last attempt
AttemptFail_Reset ==
    /\ pc = "adapter"
    /\ attempt' = IF attempt < MaxAttempts THEN attempt + 1 ELSE 1
    /\ UNCHANGED <<pc, config, state, i, disk, files, run, log, loaded>>

\* an attempt raises and tenacity starts the next one
AttemptFail ==
    /\ pc = "adapter"
    /\ attempt < MaxAttempts
    /\ attempt' = attempt + 1
    /\ UNCHANGED <<pc, config, state, i, disk, files, run, log, loaded>>

\* a wrapper that gives up at whichever attempt raises
AdapterGiveUp_Early ==
    /\ pc = "adapter"
    /\ attempt <= MaxAttempts
    /\ ClipFails(StrV("RetryError"))
    /\ UNCHANGED <<config, files, run, loaded>>

\* the last attempt raises: tenacity raises RetryError
AdapterGiveUp ==
    /\ pc = "adapter"
    /\ attempt = MaxAttempts
    /\ ClipFails(StrV("RetryError"))
    /\ UNCHANGED <<config, files, run, loaded>>

\* an attempt returns the video; the last frame is extracted unless the clip
\* is the final one; the clip is COMPLETED and the state saved
ClipCompleted ==
    /\ pc = "adapter"
    /\ LET idx == state.clips[i].index
           chained == idx < Len(state.clips) - 1
       IN  /\ state' = [state EXCEPT
                  !["clips"][i].output_path = PathV(state.clips[i].output_path.s),
                  !["clips"][i].last_frame_path =
                      IF chained THEN PathV(LastFrameFile(idx)) ELSE @,
                  !["clips"][i].status = COMPLETED]
           /\ files' = files \cup {state.clips[i].output_path.s}
                             \cup (IF chained THEN {LastFrameFile(idx)} ELSE {})
    /\ disk' = save(state')
    /\ pc' = "clips"
    /\ i' = i + 1
    /\ attempt' = 0
    /\ UNCHANGED <<config, run, log, loaded>>

\* an extraction failure that is tolerated: the clip is completed without
\* a last frame of its own
ExtractFail_Tolerated ==
    /\ pc = "adapter"
    /\ state.clips[i].index < Len(state.clips) - 1
    /\ files' = files \cup {state.clips[i].output_path.s}
    /\ state' = [state EXCEPT !["clips"][i].status = COMPLETED]
    /\ disk' = save(state')
    /\ pc' = "clips"
    /\ log' = log
    /\ i' = i + 1
    /\ attempt' = 0
    /\ UNCHANGED <<config, run, loaded>>

\* an attempt returns the video, and extract_last_frame raises
ExtractFail ==
    /\ pc = "adapter"
    /\ state.clips[i].index < Len(state.clips) - 1
    /\ files' = files \cup {state.clips[i].output_path.s}
    /\ ClipFails(StrV("Failed to extract last frame"))
    /\ UNCHANGED <<config, run, loaded>>

\* a loop that may be left before its last clip
ClipStageEnd_Early ==
    /\ pc = "clips"
    /\ i \in 1..(Len(state.clips) + 1)
    /\ pc' = "stitch"
    /\ log' = [log EXCEPT !.reported =
                  Cardinality({k \in DOMAIN state.clips : state.clips[k].status = FAILED})]
    /\ UNCHANGED <<config, state, i, attempt, disk, files, run, loaded>>

\* the loop is over: the summary of the failed clips
ClipStageEnd ==
    /\ pc = "clips"
    /\ i = Len(state.clips) + 1
    /\ pc' = "stitch"
    /\ log' = [log EXCEPT !.reported =
                  Cardinality({k \in DOMAIN state.clips : state.clips[k].status = FAILED})]
    /\ UNCHANGED <<config, state, i, attempt, disk, files, run, loaded>>

-----------------------------------------------------------------------------
(* FilmGenerator._stitch_clips and the end of generate *)

RECURSIVE SelectSeq2(_, _)
\* [Path(clip.output_path) for clip in clips if COMPLETED and clip.output_path]
SelectSeq2(clips, k) ==
    IF k > Len(clips) THEN <<>>
    ELSE (IF clips[k].status = COMPLETED /\ Truthy(clips[k].output_path)
          THEN <<clips[k].output_path>> ELSE <<>>) \o SelectSeq2(clips, k + 1)

RECURSIVE SelectNotPending(_, _)
\* a collection that only leaves out the clips never attempted
SelectNotPending(clips, k) ==
    IF k > Len(clips) THEN <<>>
    ELSE (IF clips[k].status \in {COMPLETED, FAILED} /\ Truthy(clips[k].output_path)
          THEN <<clips[k].output_path>> ELSE <<>>) \o SelectNotPending(clips, k + 1)

completed_clips_WithFailed(st) == SelectNotPending(st.clips, 1)

completed_clips(st) == SelectSeq2(st.clips, 1)

StitchEmpty ==
    /\ pc = "stitch"
    /\ completed_clips(state) = <<>>
    /\ Raise(state, "no_clips")
    /\ UNCHANGED <<config, i, attempt, files, run, loaded>>

StitchInvoke ==
    /\ pc = "stitch"
    /\ completed_clips(state) # <<>>
    /\ pc' = "stitching"
    /\ log' = [log EXCEPT !.stitchCalls = Append(@, completed_clips(state))]
    /\ UNCHANGED <<config, state, i, attempt, disk, files, run, loaded>>

\* an end of generate() that forgets the completion flag
Finished_NoFlag(st, final_video) == [st EXCEPT !.final_video_path = final_video]

\* an end of generate() that sets the flag without the reference
Finished_NoPath(st, final_video) == [st EXCEPT !.completed = TRUE]

\* the state generate() leaves after stitch_videos returned final_video
Finished(st, final_video) ==
    [st EXCEPT !.final_video_path = final_video, !.completed = TRUE]

ConcatOk ==
    /\ pc = "stitching"
    /\ files' = files \cup {FinalFilmFile}
    /\ state' = Finished(state, PathV(FinalFilmFile))
    /\ disk' = save(state')
    /\ pc' = "done"
    /\ log' = [log EXCEPT !.concat = "ok"]
    /\ UNCHANGED <<config, i, attempt, run, loaded>>

\* ffmpeg missing or failing: RuntimeError / CalledProcessError
ConcatFail ==
    /\ pc = "stitching"
    /\ state' = state
    /\ disk' = save(state)
    /\ pc' = "failed"
    /\ log' = [log EXCEPT !.concat = "fail", !.raised = "stitch"]
    /\ UNCHANGED <<config, i, attempt, files, run, loaded>>

-----------------------------------------------------------------------------
(* The environment between runs: a media file is removed.                  *)

DeleteFile(f) ==
    /\ pc \in {"idle", "done", "failed"}
    /\ run < MaxRuns
    /\ f \in files
    /\ files' = files \ {f}
    /\ UNCHANGED <<pc, config, state, i, attempt, disk, run, log, loaded>>

\* between runs, state.json is replaced by a document that cannot be
\* deserialized (a foreign file, or a write of save() cut short)
CorruptDocument ==
    /\ pc \in {"idle", "done", "failed"}
    /\ run < MaxRuns
    /\ disk # Corrupt
    /\ disk' = Corrupt
    /\ UNCHANGED <<pc, config, state, i, attempt, files, run, log, loaded>>

-----------------------------------------------------------------------------

Init ==
    /\ pc = "idle"
    /\ config = NoneV
    /\ state = NoState
    /\ i = 0
    /\ attempt = 0
    /\ disk = Absent
    /\ files = {}
    /\ run = 0
    /\ log = NewLog(FALSE, NoState, {})
    /\ loaded = NoneV

Next ==
    \/ \E cfg \in RunConfigs, resume \in BOOLEAN : Construct(cfg, resume)
    \/ StartingFrameSkip
    \/ StartingFrameNoKey
    \/ StartingFrameOk
    \/ StartingFrameFail
    \/ ClipSkip
    \/ ClipSubmit
    \/ CredentialMissing
    \/ AdapterInvoke
    \/ AttemptFail
    \/ AdapterGiveUp
    \/ ClipCompleted
    \/ ExtractFail
    \/ ClipStageEnd
    \/ StitchEmpty
    \/ StitchInvoke
    \/ ConcatOk
    \/ ConcatFail
    \/ \E f \in {ClipFile(k) : k \in 0..(MaxClips - 1)} : DeleteFile(f)
    \/ CorruptDocument

Spec == Init /\ [][Next]_vars

\* the steps of generate(): every statement of the single thread is
\* followed by the next one, every collaborator call returns or raises
RunStep ==
    \/ StartingFrameSkip
    \/ StartingFrameNoKey
    \/ StartingFrameOk
    \/ StartingFrameFail
    \/ ClipSkip
    \/ ClipSubmit
    \/ CredentialMissing
    \/ AdapterInvoke
    \/ AttemptFail
    \/ AdapterGiveUp
    \/ ClipCompleted
    \/ ExtractFail
    \/ ClipStageEnd
    \/ StitchEmpty
    \/ StitchInvoke
    \/ ConcatOk
    \/ ConcatFail

\* runs started with or without resume, over a checkpoint that may have
\* been made unreadable in between; output files are not removed here (a
\* clip whose file is gone takes the steps of a failed one)
LiveNext ==
    \/ \E cfg \in RunConfigs, resume \in BOOLEAN : Construct(cfg, resume)
    \/ RunStep
    \/ CorruptDocument

\* the behaviours in which a run that has started keeps taking steps
SpecLive == Init /\ [][LiveNext]_vars /\ WF_vars(RunStep)

-----------------------------------------------------------------------------
(* The checkpoint store on its own: save, load and clear applied to        *)
(* RunStates drawn from a bounded set.                                     *)

MaxStoreClips == 1

\* the clips a stored RunState may hold at index idx: every status, with the
\* optional fields unset or set, an error message absent, empty or set
StoreClip(idx) ==
    { [index |-> idx, status |-> st,
       prompt |-> IF st = PENDING THEN StrV("") ELSE StrV("A robot. Final scene"),
       start_image_path |-> IF set THEN PathV(StartingFrameFile) ELSE NoneV,
       output_path |-> IF set THEN PathV(ClipFile(idx)) ELSE NoneV,
       last_frame_path |-> IF set THEN PathV(LastFrameFile(idx)) ELSE NoneV,
       duration |-> DefaultClipDuration,
       error |-> IF st = FAILED THEN StrV("RetryError")
                 ELSE IF st = COMPLETED /\ set THEN StrV("") ELSE NoneV] :
        st \in ClipStatus, set \in BOOLEAN }

RECURSIVE StoreClipLists(_)
StoreClipLists(n) ==
    IF n = 0 THEN {<<>>}
    ELSE StoreClipLists(n - 1) \cup
         { Append(l, c) : l \in {m \in StoreClipLists(n - 1) : Len(m) = n - 1},
                          c \in StoreClip(n - 1) }

StoreConfigs ==
    { FilmConfig(StrV("A robot"), EnumV("FilmStyle", "noir"), EnumV("MusicVibe", "dark"),
                 60, DefaultClipDuration, OPENAI, StrV("sk-openai"), NoneV),
      FilmConfig(StrV(""), EnumV("FilmStyle", "scifi"), EnumV("MusicVibe", "none"),
                 25, 7, GEMINI, NoneV, StrV("gm-key")) }

StoreStates ==
    { [config |-> c, output_dir |-> OutputDir, starting_frame_path |-> sf,
       clips |-> cl, final_video_path |-> fv, completed |-> done] :
        c \in StoreConfigs, sf \in {NoneV, PathV(StartingFrameFile)},
        cl \in StoreClipLists(MaxStoreClips),
        fv \in {NoneV, PathV(FinalFilmFile)}, done \in BOOLEAN }

NotLoaded == [t |-> "NotLoaded"]

StoreInit ==
    /\ pc = "store"
    /\ config = NoneV
    /\ state = NoState
    /\ i = 0
    /\ attempt = 0
    /\ disk = Absent
    /\ files = {}
    /\ run = 0
    /\ log = [op |-> "none", existed |-> FALSE]
    /\ loaded = NotLoaded

\* StateManager.save(s); state keeps the RunState that was saved
StoreSave(s) ==
    /\ pc = "store"
    /\ state' = s
    /\ disk' = save(s)
    /\ loaded' = NotLoaded
    /\ log' = [op |-> "save", existed |-> disk # Absent]
    /\ UNCHANGED <<pc, config, i, attempt, files, run>>

StoreLoad ==
    /\ pc = "store"
    /\ loaded' = load(disk)
    /\ log' = [op |-> "load", existed |-> disk # Absent]
    /\ UNCHANGED <<pc, config, state, i, attempt, disk, files, run>>

StoreClear ==
    /\ pc = "store"
    /\ disk' = clear(disk)
    /\ loaded' = NotLoaded
    /\ log' = [op |-> "clear", existed |-> disk # Absent]
    /\ UNCHANGED <<pc, config, state, i, attempt, files, run>>

StoreNext ==
    \/ \E s \in StoreStates : StoreSave(s)
    \/ StoreLoad
    \/ StoreClear

SpecStore == StoreInit /\ [][StoreNext]_vars

-----------------------------------------------------------------------------
(* create_video_prompt applied to the arguments the clip loop can pass:     *)
(* a premise, a total of 1..MaxPromptClips clips and an index below it.     *)
(* Each call is made twice; log keeps the arguments and both results.       *)

MaxPromptClips == 8

PromptPremises == {StrV("A robot"), StrV("A whale"), StrV("")}

PromptInit ==
    /\ pc = "prompt"
    /\ config = NoneV
    /\ state = NoState
    /\ i = 0
    /\ attempt = 0
    /\ disk = Absent
    /\ files = {}
    /\ run = 0
    /\ log = [op |-> "none"]
    /\ loaded = NotLoaded

PromptCall(premise, clip_index, total_clips) ==
    /\ pc = "prompt"
    /\ log' = [op |-> "call", premise |-> premise, clip_index |-> clip_index,
               total_clips |-> total_clips,
               prompt |-> create_video_prompt(premise, clip_index, total_clips),
               again |-> create_video_prompt(premise, clip_index, total_clips)]
    /\ UNCHANGED <<pc, config, state, i, attempt, disk, files, run, loaded>>

PromptNext ==
    \E premise \in PromptPremises, total_clips \in 1..MaxPromptClips :
        \E clip_index \in 0..(total_clips - 1) :
            PromptCall(premise, clip_index, total_clips)

SpecPrompt == PromptInit /\ [][PromptNext]_vars

-----------------------------------------------------------------------------
(* Runs that are always started with resume, with no file removed between   *)
(* them, and whose process may die at any point: outside a save, which      *)
(* leaves state.json as it was, or in the middle of a save, which leaves it *)
(* truncated (open(state_file, "w") followed by json.dump).  A dying        *)
(* process loses its RunState; the files a collaborator may have written    *)
(* before the death stay.                                                   *)

\* the output files the step in progress may have written when the process
\* dies
PartialOutputs ==
    IF pc = "generate" /\ ~Truthy(state.starting_frame_path)
    THEN {{}, {StartingFrameFile}}
    ELSE IF pc = "adapter"
    THEN {{}, {state.clips[i].output_path.s}}
         \cup (IF state.clips[i].index < Len(state.clips) - 1
               THEN {{state.clips[i].output_path.s, LastFrameFile(state.clips[i].index)}}
               ELSE {})
    ELSE IF pc = "stitching" THEN {{}, {FinalFilmFile}}
    ELSE {{}}

\* the process dies
Died(written) ==
    /\ pc' = "failed"
    /\ state' = NoState
    /\ files' = files \cup written
    /\ log' = [NewLog(FALSE, NoState, {}) EXCEPT !.raised = "crash"]
    /\ i' = 0
    /\ attempt' = 0
    /\ UNCHANGED <<config, run, loaded>>

\* the process dies outside a write of state.json
Crash(written) ==
    /\ pc \in {"generate", "clips", "generate_clip", "adapter", "stitch", "stitching"}
    /\ Died(written)
    /\ disk' = disk

\* the process dies in a _save_state(): after the starting frame, in the
\* finally block of a clip, after the stitch, or in the except handler of
\* generate()
CrashInSave(written) ==
    /\ \/ pc = "generate" /\ ~Truthy(state.starting_frame_path)
       \/ pc \in {"generate_clip", "adapter", "stitch", "stitching"}
    /\ Died(written)
    /\ disk' = Corrupt

CrashNext ==
    \/ \E cfg \in RunConfigs : Construct(cfg, TRUE)
    \/ StartingFrameSkip
    \/ StartingFrameNoKey
    \/ StartingFrameOk
    \/ StartingFrameFail
    \/ ClipSkip
    \/ ClipSubmit
    \/ CredentialMissing
    \/ AdapterInvoke
    \/ AttemptFail
    \/ AdapterGiveUp
    \/ ClipCompleted
    \/ ExtractFail
    \/ ClipStageEnd
    \/ StitchEmpty
    \/ StitchInvoke
    \/ ConcatOk
    \/ ConcatFail
    \/ \E written \in PartialOutputs : Crash(written)
    \/ \E written \in PartialOutputs : CrashInSave(written)

SpecCrash == Init /\ [][CrashNext]_vars

-----------------------------------------------------------------------------
(* Vocabulary of the properties *)

Range(seq) == {seq[p] : p \in DOMAIN seq}

Running == pc \in {"generate", "clips", "generate_clip", "adapter", "stitch", "stitching"}

\* generate() returned or raised
RunEnded == pc \in {"done", "failed"} /\ state # NoState

\* _generate_clips returned in this run
ClipStageOver == state # NoState /\ log.reported >= 0

\* how often this run passed the clip index idx to generate_clip
Submissions(idx) == Cardinality({p \in DOMAIN log.genCalls : log.genCalls[p] = idx})

\* the clip at list position k failed in this run
FailedInRun(k) ==
    state.clips[k].status = FAILED /\ state.clips[k].index \in Range(log.genCalls)

AnyCompleted == \E k \in DOMAIN state.clips : state.clips[k].status = COMPLETED

-----------------------------------------------------------------------------
\* C1: a clip failure does not leave the clip loop: once a run is past the
\* clip stage or has ended, every clip after a clip that failed in this run
\* was either skipped as completed or passed to generate_clip exactly once.
C1_PartialFailureContinuation ==
    (state # NoState /\ pc \in {"stitch", "stitching", "done", "failed"}) =>
        \A k \in DOMAIN state.clips :
            FailedInRun(k) =>
                \A j \in (k + 1)..Len(state.clips) :
                    \/ /\ state.clips[j].index \in log.skipped
                       /\ Submissions(state.clips[j].index) = 0
                    \/ /\ state.clips[j].index \notin log.skipped
                       /\ Submissions(state.clips[j].index) = 1

\* the first of three clips failed in this run and both later clips were
\* passed to generate_clip
C1_Witness ==
    /\ state # NoState
    /\ pc = "done"
    /\ Len(state.clips) = 3
    /\ FailedInRun(1)
    /\ log.genCalls = <<0, 1, 2>>

-----------------------------------------------------------------------------
\* C2: whenever stitch_videos is invoked, its list holds exactly the output
\* paths of the clips with status completed, in ascending clip index: every
\* entry is a completed clip's path, every completed clip has an entry, and
\* the entries follow the clip order without repetition.
C2_StitchListExact ==
    (pc = "stitching") =>
        /\ Len(log.stitchCalls) = 1
        /\ LET L == log.stitchCalls[1]
               done == {k \in DOMAIN state.clips : state.clips[k].status = COMPLETED}
           IN  /\ Len(L) = Cardinality(done)
               /\ \A k \in done : \E p \in DOMAIN L : L[p] = state.clips[k].output_path
               /\ \A p \in DOMAIN L : \E k \in done : L[p] = state.clips[k].output_path
               /\ \A p, q \in DOMAIN L :
                    p < q => \E k, j \in done :
                                /\ L[p] = state.clips[k].output_path
                                /\ L[q] = state.clips[j].output_path
                                /\ state.clips[k].index < state.clips[j].index

\* stitch_videos is invoked with two clips while the clip between them failed
C2_Witness ==
    /\ pc = "stitching"
    /\ Len(state.clips) = 3
    /\ state.clips[2].status = FAILED
    /\ state.clips[2].output_path.s \in files
    /\ log.stitchCalls = <<(<<PathV(ClipFile(0)), PathV(ClipFile(2))>>)>>

-----------------------------------------------------------------------------
\* C3: every call of the provider function made in this run carried, for clip
\* 0, the starting frame of the run, and for clip i > 0 whose predecessor is
\* completed with a last frame, that last frame.
C3_ChainingInvariant ==
    (state # NoState /\ pc # "idle") =>
        \A p \in DOMAIN log.adapterCalls :
            LET call == log.adapterCalls[p]
                k == call.index + 1
            IN  /\ call.index = 0 =>
                     /\ call.seed = state.starting_frame_path
                     /\ call.seed = PathV(StartingFrameFile)
                /\ (/\ call.index > 0
                    /\ state.clips[k - 1].status = COMPLETED
                    /\ state.clips[k - 1].last_frame_path # NoneV) =>
                     call.seed = state.clips[k - 1].last_frame_path

\* clip 0 was seeded with the starting frame and clip 1 with clip 0's last
\* frame
C3_Witness ==
    /\ state # NoState
    /\ Len(log.adapterCalls) >= 2
    /\ log.adapterCalls[1].index = 0
    /\ log.adapterCalls[1].seed = PathV(StartingFrameFile)
    /\ log.adapterCalls[2].index = 1
    /\ state.clips[1].status = COMPLETED
    /\ log.adapterCalls[2].seed = PathV(LastFrameFile(0))

-----------------------------------------------------------------------------
\* C4: in a run resumed from a checkpoint, a clip checkpointed as completed
\* whose output file exists is never passed to generate_clip or to the
\* provider function, and its status, prompt, output path and last-frame path
\* stay as checkpointed.
C4_ResumeSkip ==
    (state # NoState /\ log.resumed) =>
        \A k \in DOMAIN log.kept0 :
            /\ Submissions(log.kept0[k].index) = 0
            /\ \A p \in DOMAIN log.adapterCalls :
                    log.adapterCalls[p].index # log.kept0[k].index
            /\ state.clips[k].status = log.kept0[k].status
            /\ state.clips[k].prompt = log.kept0[k].prompt
            /\ state.clips[k].output_path = log.kept0[k].output_path
            /\ state.clips[k].last_frame_path = log.kept0[k].last_frame_path

\* a resumed run ended after skipping a completed clip and regenerating
\* another one
C4_Witness ==
    /\ state # NoState
    /\ log.resumed
    /\ pc = "done"
    /\ DOMAIN log.kept0 # {}
    /\ log.skipped # {}
    /\ log.genCalls # <<>>

-----------------------------------------------------------------------------
\* C5: in a run in which every clip ends the clip stage failed, the stitch
\* stage raises without invoking stitch_videos, and at the end of the run
\* neither the RunState nor the checkpoint has a final-video reference.
C5_FatalEmptyLaw ==
    (/\ RunEnded
     /\ ClipStageOver
     /\ \A k \in DOMAIN state.clips : state.clips[k].status = FAILED) =>
        /\ log.raised = "no_clips"
        /\ log.stitchCalls = <<>>
        /\ state.final_video_path = NoneV
        /\ disk # Corrupt => (disk # Absent /\ disk.final_video_path = JNull)

-----------------------------------------------------------------------------
\* C6: load() after save(s) returns a RunState equal to s in every field:
\* config, clips (status, prompt, paths, error), starting-frame and
\* final-video references, completion flag.
C6_RoundTrip ==
    (log.op = "load" /\ disk # Absent) => loaded = state

\* a RunState with a failed clip carrying an error message was saved and
\* loaded back
C6_Witness ==
    /\ log.op = "load"
    /\ disk # Absent
    /\ loaded = state
    /\ Len(loaded.clips) = 1
    /\ loaded.clips[1].status = FAILED
    /\ loaded.clips[1].error = StrV("RetryError")
    /\ loaded.completed
    /\ loaded.config.gemini_api_key = StrV("gm-key")

-----------------------------------------------------------------------------
\* C7: a freshly created RunState has exactly ceil(target_duration /
\* clip_duration) clips, clip j has index j, and every clip is pending with
\* an empty prompt.
C7_FreshClipCount ==
    (pc = "generate" /\ ~log.resumed) =>
        /\ Len(state.clips) = Ceil(config.target_duration, config.clip_duration)
        /\ \A k \in DOMAIN state.clips :
              /\ state.clips[k].index = k - 1
              /\ state.clips[k].status = PENDING
              /\ state.clips[k].prompt = StrV("")

-----------------------------------------------------------------------------
\* C8: if the credential of the selected video provider is absent, the run
\* makes no image-generation call and no provider call, records no clip as
\* failed for the missing credential, and ends by raising ValueError.
C8_MissingCredentialIsConfigError ==
    (state # NoState /\ pc # "idle" /\ ~Truthy(ApiKey(config))) =>
        /\ log.imgCalls = 0
        /\ log.adapterCalls = <<>>
        /\ \A k \in DOMAIN state.clips :
              ~(FailedInRun(k) /\ state.clips[k].error = KeyError(config))
        /\ RunEnded => log.raised = "ValueError"

-----------------------------------------------------------------------------
\* C9: a run that has ended with a starting frame, at least one completed
\* clip and no failure of stitch_videos ended successfully: stitch_videos was
\* called, the final-video reference is set and the completion flag is true,
\* in memory and in the checkpoint, however many clips failed.
C9_PartialSuccessCompletes ==
    (/\ RunEnded
     /\ state.starting_frame_path # NoneV
     /\ AnyCompleted
     /\ log.concat # "fail") =>
        /\ pc = "done"
        /\ log.concat = "ok"
        /\ state.final_video_path = PathV(FinalFilmFile)
        /\ state.completed
        /\ disk # Corrupt => disk = save(state)

\* three clips, the middle one failed in this run: clips 0 and 2 were
\* stitched and the run completed
C9_Witness ==
    /\ RunEnded
    /\ Len(state.clips) = 3
    /\ FailedInRun(2)
    /\ log.stitchCalls = <<(<<PathV(ClipFile(0)), PathV(ClipFile(2))>>)>>
    /\ log.concat = "ok"
    /\ log.reported = 1
    /\ state.completed

-----------------------------------------------------------------------------
MemCompleted == state # NoState /\ state.completed
DiskCompleted == disk # Absent /\ disk # Corrupt /\ disk.completed

\* C10: in memory and in the checkpoint the completion flag implies a
\* final-video reference, and the flag turns true, in the running process
\* and in the checkpoint, only in the step in which stitch_videos returns.
C10_CompletionFlag ==
    /\ [](MemCompleted => state.final_video_path # NoneV)
    /\ [](DiskCompleted => disk.final_video_path # JNull)
    /\ [][(Running /\ ~MemCompleted /\ MemCompleted') =>
             (pc = "stitching" /\ pc' = "done" /\ log'.concat = "ok")]_vars
    /\ [][(~DiskCompleted /\ DiskCompleted') =>
             (pc = "stitching" /\ pc' = "done" /\ log'.concat = "ok")]_vars

\* a run has set the flag and saved it
C10_Witness ==
    /\ pc = "done"
    /\ MemCompleted
    /\ DiskCompleted
    /\ log.concat = "ok"

-----------------------------------------------------------------------------
\* C11: in every step of a run that turns a clip's status to completed, the
\* clip's output path is set and names a file that exists after the step;
\* and every clip with status failed has an error message.
C11_ClipInvariant ==
    /\ [](state # NoState =>
            \A k \in DOMAIN state.clips :
                state.clips[k].status = FAILED => state.clips[k].error # NoneV)
    /\ [][(Running /\ state # NoState /\ state' # NoState) =>
            \A k \in DOMAIN state.clips :
                (state.clips[k].status # COMPLETED /\ state'.clips[k].status = COMPLETED) =>
                    /\ state'.clips[k].output_path # NoneV
                    /\ state'.clips[k].output_path.s \in files']_vars

\* a run has completed one clip, whose file exists, and failed another, whose
\* error is recorded
C11_Witness ==
    /\ Running
    /\ \E k \in DOMAIN state.clips :
          /\ state.clips[k].status = COMPLETED
          /\ state.clips[k].index \in Range(log.genCalls)
          /\ state.clips[k].output_path.s \in files
    /\ \E k \in DOMAIN state.clips :
          /\ FailedInRun(k)
          /\ state.clips[k].error = StrV("RetryError")

-----------------------------------------------------------------------------
\* the three framings a prompt can have
OpeningFraming(premise) ==
    StrV(premise.s \o ". Opening scene, establishing shot. Smooth camera movement.")

FinalFraming(premise) ==
    StrV(premise.s \o ". Final scene, resolution. Dramatic conclusion.")

ContinuationFraming(premise, scene) ==
    StrV(premise.s \o ". Continuing the story (scene " \o ToString(scene)
         \o "). Build tension and progression.")

\* C12 as stated: index 0 yields the opening framing, index = total-1 yields
\* the final framing, any other index i yields the continuation framing
\* naming scene i+1, and a second call with the same arguments yields the
\* same prompt.  Fails for a one-clip film, where index 0 is also total-1.
C12_PromptRuleAsStated ==
    log.op = "call" =>
        /\ log.clip_index = 0 => log.prompt = OpeningFraming(log.premise)
        /\ log.clip_index = log.total_clips - 1 => log.prompt = FinalFraming(log.premise)
        /\ (log.clip_index # 0 /\ log.clip_index # log.total_clips - 1) =>
              log.prompt = ContinuationFraming(log.premise, log.clip_index + 1)
        /\ log.again = log.prompt

\* C12 (amended): index 0 yields the opening framing (also when it is the
\* only clip), a non-zero index = total-1 yields the final framing, any
\* other index i yields the continuation framing naming scene i+1, and a
\* second call with the same arguments yields the same prompt.
C12_PromptRule ==
    log.op = "call" =>
        /\ log.clip_index = 0 => log.prompt = OpeningFraming(log.premise)
        /\ (log.clip_index # 0 /\ log.clip_index = log.total_clips - 1) =>
              log.prompt = FinalFraming(log.premise)
        /\ (log.clip_index # 0 /\ log.clip_index # log.total_clips - 1) =>
              log.prompt = ContinuationFraming(log.premise, log.clip_index + 1)
        /\ log.again = log.prompt

\* the prompt of a middle clip: scene 3 of 5, as the 1-based number
C12_Witness ==
    /\ log.op = "call"
    /\ log.clip_index = 2
    /\ log.total_clips = 5
    /\ log.prompt = ContinuationFraming(log.premise, 3)

-----------------------------------------------------------------------------
\* the starting-frame stage of the current run failed
StartingFrameFailed == log.raised \in {"image", "ValueError"}

\* C13: if starting-frame generation fails, the run has terminated with an
\* error, no clip was passed to generate_clip or to the provider adapter in
\* that run, the concatenator was not invoked, and the starting-frame
\* reference is unset in the RunState and in the saved checkpoint.
C13_StartingFrameHardDependency ==
    StartingFrameFailed =>
        /\ pc = "failed"
        /\ log.genCalls = <<>>
        /\ log.adapterCalls = <<>>
        /\ log.skipped = {}
        /\ log.stitchCalls = <<>>
        /\ log.concat = "none"
        /\ state.starting_frame_path = NoneV
        /\ disk # Corrupt => (disk # Absent /\ disk.starting_frame_path = JNull)

\* the image request of a run failed, and the run's clips are all pending
C13_Witness ==
    /\ pc = "failed"
    /\ log.raised = "image"
    /\ log.imgCalls = 1
    /\ Len(state.clips) = MaxClips
    /\ \A k \in DOMAIN state.clips : state.clips[k].status = PENDING

-----------------------------------------------------------------------------
\* C14: load() returns absent exactly when no document exists; after
\* save(s) a document exists; after clear() no document exists, so that a
\* load() that follows returns absent; clear() without a document changes
\* nothing.
C14_StorePresence ==
    /\ [](pc = "store" =>
            /\ log.op = "load" => (loaded = NoneV <=> disk = Absent)
            /\ log.op = "save" => disk # Absent
            /\ log.op = "clear" => disk = Absent)
    /\ [][(StoreClear /\ disk = Absent) => (disk' = Absent /\ state' = state)]_vars
    /\ [][(StoreLoad /\ log.op = "clear") => loaded' = NoneV]_vars

\* a document was saved and cleared, and the load that followed found none
C14_Witness ==
    /\ pc = "store"
    /\ state # NoState
    /\ log.op = "load"
    /\ log.existed = FALSE
    /\ loaded = NoneV

-----------------------------------------------------------------------------
\* generate() raised a stage-fatal error: starting-frame failure, zero
\* completed clips at stitch, or concatenator failure
StageFatal ==
    /\ pc = "failed"
    /\ state # NoState
    /\ log.raised \in {"image", "ValueError", "no_clips", "stitch"}

\* C15: after a stage-fatal error the checkpoint, as long as nothing
\* outside the program replaces it, is the in-memory RunState of the point
\* of failure (it is its dump, and loads back to it); the
\* resumed run that follows starts from that clip sequence, and no clip it
\* finds there completed with an existing file is passed to generate_clip.
C15_FatalPreservesProgress ==
    /\ [](StageFatal /\ disk # Corrupt => (disk = save(state) /\ load(disk) = state))
    /\ [][(StageFatal /\ disk # Corrupt /\ run' = run + 1 /\ log'.resumed) =>
            /\ state'.clips = state.clips
            /\ state'.starting_frame_path = state.starting_frame_path
            /\ log'.kept0 = [k \in DoneAt(state, files) |-> state.clips[k]]]_vars
    /\ [](state # NoState /\ log.resumed =>
            \A k \in DOMAIN log.kept0 : Submissions(log.kept0[k].index) = 0)

\* the concatenator failed in a run resumed under another premise, with a
\* completed clip whose file exists
C15_Witness ==
    /\ StageFatal
    /\ log.raised = "stitch"
    /\ log.resumed
    /\ disk # Corrupt
    /\ disk.config.premise = JStr("A whale")
    /\ DoneAt(state, files) # {}

-----------------------------------------------------------------------------
\* C16: when a run is constructed with resume over an existing checkpoint
\* (one that deserializes; C17 is about the others),
\* its RunState has the current run's config and everything else (clip
\* sequence, starting-frame reference, final-video reference, completion
\* flag) as in the checkpoint document; and no step of a run changes the
\* length of the clip sequence, whatever the config's durations are.
C16_ResumeReconstruction ==
    /\ [][(run' = run + 1 /\ log'.resumed /\ disk # Corrupt) =>
            /\ state' # NoState
            /\ state'.config = config'
            /\ [save(state') EXCEPT !.config = disk.config] = disk
            /\ state'.clips = load(disk).clips
            /\ state'.starting_frame_path = load(disk).starting_frame_path
            /\ state'.final_video_path = load(disk).final_video_path
            /\ state'.completed = load(disk).completed]_vars
    /\ [][(run' = run /\ state # NoState) =>
            (state' # NoState /\ Len(state'.clips) = Len(state.clips))]_vars

\* a resumed run keeps the three clips of its checkpoint although its
\* config asks for one clip's duration
C16_Witness ==
    /\ Running
    /\ log.resumed
    /\ Len(state.clips) = MaxClips
    /\ config.target_duration = DefaultClipDuration
    /\ state.config = config
    /\ Len(log.genCalls) > 0

-----------------------------------------------------------------------------
\* C17: a run constructed with resume over a checkpoint document that
\* cannot be deserialized fails at construction: no RunState is built (in
\* particular no fresh one), the document is left as it is, and no image,
\* clip, adapter or stitch call is made in that run.
C17_CorruptCheckpointIsFatal ==
    /\ [][(run' = run + 1 /\ disk = Corrupt /\ log'.resumed) =>
            /\ pc' = "failed"
            /\ state' = NoState
            /\ log'.raised = "load"]_vars
    /\ [](log.raised = "load" =>
            /\ pc = "failed"
            /\ state = NoState
            /\ disk = Corrupt
            /\ log.imgCalls = 0
            /\ log.genCalls = <<>>
            /\ log.adapterCalls = <<>>
            /\ log.stitchCalls = <<>>)

\* the second run resumed over a corrupted checkpoint of the first, whose
\* clip files are still there
C17_Witness ==
    /\ run = 2
    /\ log.raised = "load"
    /\ log.resumed
    /\ disk = Corrupt
    /\ ClipFile(0) \in files

-----------------------------------------------------------------------------
\* the provider credential values of the document on disk
DiskCredentials ==
    IF disk = Absent \/ disk = Corrupt THEN {}
    ELSE {disk.config.openai_api_key, disk.config.gemini_api_key} \ {JNull}

\* C18: no provider credential value appears in the persisted checkpoint
\* document.  Fails at the first save of a run whose config carries a key.
C18_NoCredentialInCheckpoint ==
    DiskCredentials = {}

-----------------------------------------------------------------------------
\* the clips (list positions) a resumed run did not find completed with
\* their file present: checkpointed as pending, generating or failed, or as
\* completed with the output file gone
ToRegenerate == DOMAIN state.clips \ DOMAIN log.kept0

\* C19 as stated: in every resumed run that has ended, each such clip was
\* passed to generate_clip exactly once.  Fails for a resumed run that
\* aborts at the starting-frame stage.
C19_ResubmittedOnceAsStated ==
    (RunEnded /\ log.resumed) =>
        \A k \in ToRegenerate : Submissions(state.clips[k].index) = 1

\* C19 (amended): in a resumed run whose clip stage has run to its end, each
\* clip not found completed with its file present (in particular one
\* checkpointed as completed whose file is gone) was passed to generate_clip
\* exactly once and was not skipped; no clip is ever passed twice in a run,
\* and a resumed run that aborts at the starting-frame stage passes none.
C19_ResubmittedOnce ==
    (state # NoState /\ log.resumed) =>
        /\ \A k \in DOMAIN state.clips : Submissions(state.clips[k].index) <= 1
        /\ ClipStageOver =>
              \A k \in ToRegenerate :
                  /\ Submissions(state.clips[k].index) = 1
                  /\ state.clips[k].index \notin log.skipped
        /\ StartingFrameFailed => log.genCalls = <<>>

\* a resumed run has just passed to generate_clip a clip that its checkpoint
\* records as completed and whose output file is gone
C19_Witness ==
    /\ pc = "generate_clip"
    /\ log.resumed
    /\ disk.clips[i].status = JStr("completed")
    /\ state.clips[i].output_path.s \notin files
    /\ Submissions(state.clips[i].index) = 1
    /\ i \in ToRegenerate

-----------------------------------------------------------------------------
\* C20: whenever the provider function is being invoked for a clip i > 0
\* whose predecessor currently has status failed, the invocation carries no
\* seed image.  Fails when the predecessor completed in an earlier run and
\* failed on regeneration in this one: its last-frame reference is still set.
C20_SeedFallbackAfterFailure ==
    (pc = "adapter" /\ i > 1 /\ state.clips[i - 1].status = FAILED) =>
        /\ state.clips[i].start_image_path = NoneV
        /\ log.adapterCalls[Len(log.adapterCalls)].seed = NoneV

-----------------------------------------------------------------------------
\* the status the checkpoint document records for the clip at position k
DiskStatus(k) ==
    IF disk = Absent \/ disk = Corrupt \/ k \notin DOMAIN disk.clips
    THEN JNull
    ELSE disk.clips[k].status

\* C21: at every moment at which the provider function is being invoked for
\* a clip, the checkpoint document records that clip with status
\* generating.  Fails at the first invocation: the status is set in memory
\* only, the document still has the clip's earlier status.
C21_GeneratingPersisted ==
    pc = "adapter" => DiskStatus(i) = JStr("generating")

-----------------------------------------------------------------------------
\* the list positions of the clips this run has passed to generate_clip
Attempted == {k \in DOMAIN state.clips : state.clips[k].index \in Range(log.genCalls)}

Terminal == {JStr("completed"), JStr("failed")}

\* C22: the step that ends a clip attempt, by success or by failure, leaves
\* a checkpoint equal to the in-memory RunState that records the clip as
\* completed or failed; between attempts the checkpoint stays equal to the
\* RunState; and while a later clip is at generate_clip or at the provider
\* function, the checkpoint records every clip attempted before it with its
\* terminal status and agrees with the RunState on every other clip.
C22_CheckpointAfterEveryClip ==
    /\ [][(pc \in {"generate_clip", "adapter"} /\ pc' \notin {"generate_clip", "adapter"}) =>
            /\ disk' = save(state')
            /\ disk'.clips[i].status \in Terminal
            /\ disk'.clips[i].status = JStr(state'.clips[i].status.s)]_vars
    /\ []((pc = "clips" /\ log.genCalls # <<>>) => disk = save(state))
    /\ [](pc \in {"generate_clip", "adapter"} =>
            /\ \A k \in Attempted \ {i} : DiskStatus(k) \in Terminal
            /\ \A k \in DOMAIN state.clips \ {i} : disk.clips[k] = DumpClip(state.clips[k]))

\* the provider function is being invoked for the third clip after the
\* first completed and the second failed in this run, both on disk
C22_Witness ==
    /\ pc = "adapter"
    /\ i = 3
    /\ Attempted = {1, 2, 3}
    /\ DiskStatus(1) = JStr("completed")
    /\ DiskStatus(2) = JStr("failed")
    /\ DiskStatus(3) = JStr("pending")

-----------------------------------------------------------------------------
\* the run was resumed from a checkpoint that was already finished: flag
\* true, final-video reference set, every clip completed with its file
\* present (the flag and the reference do not change while a run is going)
ResumedFinished ==
    /\ Running
    /\ log.resumed
    /\ state.completed
    /\ state.final_video_path # NoneV
    /\ DOMAIN log.kept0 = DOMAIN state.clips

\* C23: a run resumed from a finished checkpoint makes no image-generation
\* call, no provider call and no concatenator call.  The first two hold;
\* stitch_videos is invoked again over all the clips.
C23_ResumeSkipsFinishedStages ==
    ResumedFinished =>
        /\ log.imgCalls = 0
        /\ log.genCalls = <<>>
        /\ log.adapterCalls = <<>>
        /\ log.stitchCalls = <<>>

-----------------------------------------------------------------------------
\* how often this run called generate_starting_frame: once for each image
\* request, and once when it raised ValueError before the request
FrameCalls == log.imgCalls + (IF log.raised = "ValueError" THEN 1 ELSE 0)

\* the starting-frame stage of this run is over
FrameStageOver == state # NoState /\ pc \notin {"idle", "generate"}

\* C24: once the starting-frame stage of a run is over, the image
\* generation was invoked (once) if the starting-frame reference was unset
\* at the start of the run and not at all if it was set; the step in which
\* it succeeds sets the reference and saves the checkpoint, and whenever a
\* clip has been passed to generate_clip the reference is set in memory and
\* in the checkpoint.
C24_StartingFrameGating ==
    /\ [](FrameStageOver => FrameCalls = (IF log.frame0 THEN 0 ELSE 1))
    /\ [](state # NoState /\ pc = "generate" => FrameCalls = 0)
    /\ [][(pc = "generate" /\ pc' = "clips" /\ log'.imgCalls = log.imgCalls + 1) =>
            /\ state'.starting_frame_path = PathV(StartingFrameFile)
            /\ StartingFrameFile \in files'
            /\ disk' = save(state')
            /\ log'.genCalls = <<>>]_vars
    /\ []((Running /\ log.genCalls # <<>>) =>
            /\ state.starting_frame_path # NoneV
            /\ disk.starting_frame_path = DumpOpt(state.starting_frame_path))

\* a resumed run whose checkpoint had no starting frame has generated it
\* and passed a clip on; the frame is in the checkpoint
C24_Witness ==
    /\ pc = "adapter"
    /\ log.resumed
    /\ ~log.frame0
    /\ log.imgCalls = 1
    /\ disk.starting_frame_path = JStr(StartingFrameFile)

-----------------------------------------------------------------------------
\* the clip indices this run has dealt with: passed to generate_clip or
\* skipped
Handled == Range(log.genCalls) \cup log.skipped

\* a clip is at generate_clip or at the provider function
InFlight == pc \in {"generate_clip", "adapter"}

\* C25: while the starting-frame stage is going no clip has been submitted
\* or skipped; the indices passed to generate_clip are strictly increasing;
\* only the clip in flight has status generating, so at most one; every
\* clip before the one in flight is completed or failed and was submitted
\* or skipped in this run; and stitch_videos has been called only if every
\* clip was submitted or skipped.
C25_StrictOrdering ==
    state # NoState =>
        /\ pc = "generate" => Handled = {}
        /\ \A p, q \in DOMAIN log.genCalls : p < q => log.genCalls[p] < log.genCalls[q]
        /\ Range(log.genCalls) \cap log.skipped = {}
        /\ {k \in DOMAIN state.clips : state.clips[k].status = GENERATING}
              = (IF InFlight THEN {i} ELSE {})
        /\ InFlight =>
              /\ log.genCalls[Len(log.genCalls)] = state.clips[i].index
              /\ \A k \in 1..(i - 1) :
                    /\ state.clips[k].status \in {COMPLETED, FAILED}
                    /\ state.clips[k].index \in Handled
        /\ (pc \in {"stitch", "stitching"} \/ log.stitchCalls # <<>>) =>
              \A k \in DOMAIN state.clips : state.clips[k].index \in Handled

\* stitch_videos is being called after the first clip was skipped, the
\* second failed and the third completed
C25_Witness ==
    /\ pc = "stitching"
    /\ log.skipped = {0}
    /\ log.genCalls = <<1, 2>>
    /\ state.clips[2].status = FAILED
    /\ state.clips[3].status = COMPLETED

-----------------------------------------------------------------------------
\* C26: no step of a run, and no construction of a resumed run, changes a
\* clip prompt that is non-empty in memory or, at a resume, in the
\* checkpoint, whatever premise the run's config carries; and a step
\* changes a prompt only by submitting that clip (the loop passes it to
\* generate_clip) while its prompt is empty.
C26_PromptFreeze ==
    /\ [][(state # NoState /\ state' # NoState /\ (run' = run \/ log'.resumed)) =>
            \A k \in DOMAIN state.clips :
                Truthy(state.clips[k].prompt) =>
                    /\ k \in DOMAIN state'.clips
                    /\ state'.clips[k].prompt = state.clips[k].prompt]_vars
    /\ [][(run' = run + 1 /\ log'.resumed /\ state' # NoState) =>
            \A k \in DOMAIN disk.clips :
                state'.clips[k].prompt = StrV(disk.clips[k].prompt.s)]_vars
    /\ [][(run' = run /\ state # NoState) =>
            \A k \in DOMAIN state.clips :
                state'.clips[k].prompt # state.clips[k].prompt =>
                    /\ pc = "clips" /\ pc' = "generate_clip"
                    /\ k = i
                    /\ ~Truthy(state.clips[k].prompt)
                    /\ state'.clips[k].prompt =
                          create_video_prompt(config.premise, state.clips[k].index,
                                              Len(state.clips))]_vars

\* a run resumed under the premise "A whale" passes on a clip of three
\* with the prompt it got under "A robot"
C26_Witness ==
    /\ pc = "generate_clip"
    /\ log.resumed
    /\ config.premise = StrV("A whale")
    /\ Len(state.clips) = MaxClips
    /\ state.clips[i].prompt = create_video_prompt(StrV("A robot"), i - 1, MaxClips)

-----------------------------------------------------------------------------
\* C27: within one run no clip is passed to generate_clip more than once,
\* and a clip that failed after being passed in this run keeps status
\* failed in every later step of the run.
C27_NoOrchestratorRetry ==
    /\ [](state # NoState =>
            \A k \in DOMAIN state.clips : Submissions(state.clips[k].index) <= 1)
    /\ [][(run' = run /\ state # NoState) =>
            \A k \in DOMAIN state.clips :
                (state.clips[k].status = FAILED
                    /\ state.clips[k].index \in Range(log.genCalls)) =>
                        /\ state'.clips[k].status = FAILED
                        /\ Submissions(state.clips[k].index)' = 1]_vars

\* the clip stage of a run is over; its first clip failed on its only
\* submission and the two after it were submitted as well
C27_Witness ==
    /\ ClipStageOver
    /\ pc = "stitch"
    /\ log.genCalls = <<0, 1, 2>>
    /\ FailedInRun(1)
    /\ state.clips[1].error = StrV("RetryError")

-----------------------------------------------------------------------------
\* the step ends one generate request with the provider function's terminal
\* failure
SurfacesFailure ==
    /\ pc = "adapter"
    /\ pc' # "adapter"
    /\ state'.clips[i].status = FAILED
    /\ state'.clips[i].error = StrV("RetryError")

\* the step ends one generate request with an attempt that returned the
\* video
ReturnsVideo ==
    /\ pc = "adapter"
    /\ pc' # "adapter"
    /\ state.clips[i].output_path.s \in files'
    /\ state'.clips[i].error # StrV("RetryError") \/ state'.clips[i].status = COMPLETED

\* C28: one generate request makes at most 3 attempts, numbered from 1 with
\* no attempt outside a request; a failed attempt below the ceiling is
\* followed by the next one; the request ends either at an attempt that
\* returns the video, after which no further attempt is made, or with the
\* terminal failure, and that only at the 3rd failed attempt.
C28_AdapterRetryCeiling ==
    /\ [](attempt \in 0..3 /\ (pc = "adapter" <=> attempt >= 1))
    /\ [][(pc = "adapter" /\ pc' = "adapter") =>
            (attempt < 3 /\ attempt' = attempt + 1 /\ state' = state /\ files' = files)]_vars
    /\ [][(pc = "adapter" /\ pc' # "adapter") =>
            /\ attempt' = 0
            /\ SurfacesFailure \/ ReturnsVideo
            /\ SurfacesFailure => (attempt = 3 /\ files' = files)]_vars

\* the third attempt of the request for the second clip is running
C28_Witness ==
    /\ pc = "adapter"
    /\ attempt = 3
    /\ i = 2
    /\ Len(log.adapterCalls) = 2

-----------------------------------------------------------------------------
\* C29: whenever a run has a RunState, its config has target_duration > 0
\* and clip_duration > 0.  Fails for --duration -15: the RunState is
\* created, with no clips, and the starting-frame stage runs.
C29_RunConfigInvariant ==
    (state # NoState /\ pc # "idle") =>
        /\ config.target_duration > 0
        /\ config.clip_duration > 0

-----------------------------------------------------------------------------
\* C30: once the clip stage of a run has returned, every clip has status
\* completed or failed, none pending or generating, and the number of
\* failed clips the summary reported is the number of clips with status
\* failed.
C30_ClipStageOutcome ==
    ClipStageOver =>
        /\ \A k \in DOMAIN state.clips : state.clips[k].status \in {COMPLETED, FAILED}
        /\ log.reported =
              Cardinality({k \in DOMAIN state.clips : state.clips[k].status = FAILED})

\* the clip stage of a resumed run returned: one clip skipped as completed,
\* the other two failed and were reported
C30_Witness ==
    /\ pc = "stitch"
    /\ log.reported = 2
    /\ Len(state.clips) = MaxClips
    /\ Cardinality(log.skipped) = 1
    /\ Len(log.genCalls) = 2

-----------------------------------------------------------------------------
ExtractError == StrV("Failed to extract last frame")

\* the clip at position k got its video in this run and failed at the
\* extraction of its last frame
ExtractFailedInRun(k) ==
    /\ FailedInRun(k)
    /\ state.clips[k].error = ExtractError
    /\ ~(pc \in {"generate_clip", "adapter"} /\ k = i)

\* C31: the step in which the provider returned a non-final clip's video
\* and the extraction of its last frame failed leaves the clip failed with
\* its error set and the loop at the next clip; such a clip's video is in
\* no list passed to stitch_videos, and when the clip stage is over every
\* clip after it was submitted or skipped; and every completed non-final
\* clip has the last-frame reference of its own index, whose file exists.
C31_ExtractFailureIsClipLocal ==
    /\ [][(pc = "adapter" /\ pc' # "adapter" /\ state'.clips[i].status = FAILED
             /\ state'.clips[i].error = ExtractError) =>
            /\ state.clips[i].index < Len(state.clips) - 1
            /\ state.clips[i].output_path.s \in files'
            /\ pc' = "clips"
            /\ i' = i + 1
            /\ disk' = save(state')]_vars
    /\ [](state # NoState =>
            \A k \in DOMAIN state.clips :
                ExtractFailedInRun(k) =>
                    /\ \A c \in DOMAIN log.stitchCalls :
                          state.clips[k].output_path \notin Range(log.stitchCalls[c])
                    /\ ClipStageOver =>
                          \A j \in DOMAIN state.clips :
                              j > k => state.clips[j].index \in Handled)
    /\ [](state # NoState =>
            \A k \in DOMAIN state.clips :
                (state.clips[k].status = COMPLETED
                    /\ state.clips[k].index < Len(state.clips) - 1) =>
                        /\ state.clips[k].last_frame_path =
                              PathV(LastFrameFile(state.clips[k].index))
                        /\ LastFrameFile(state.clips[k].index) \in files)

\* stitch_videos is being called with the third clip only: the first clip's
\* video exists but its frame extraction failed, the second failed too
C31_Witness ==
    /\ pc = "stitching"
    /\ Len(state.clips) = MaxClips
    /\ ExtractFailedInRun(1)
    /\ ClipFile(0) \in files
    /\ state.clips[3].status = COMPLETED
    /\ log.stitchCalls = <<(<<PathV(ClipFile(2))>>)>>

-----------------------------------------------------------------------------
\* C32: in every RunState a clip with status completed has no error
\* message.  Fails for a clip that failed in one run and is regenerated
\* with success in the resumed run: its error message stays.
C32_NoStaleError ==
    state # NoState =>
        \A k \in DOMAIN state.clips :
            state.clips[k].status = COMPLETED => state.clips[k].error = NoneV

-----------------------------------------------------------------------------
\* the indices of the clips the checkpoint document records as completed
DiskCompletedClips ==
    IF disk = Absent \/ disk = Corrupt THEN {}
    ELSE {disk.clips[k].index :
            k \in {j \in DOMAIN disk.clips : disk.clips[j].status = JStr("completed")}}

\* C33: with resume always enabled and no output file removed, across runs,
\* process deaths and resumes, no step takes a clip out of the set of clips
\* the checkpoint records as completed.  Fails when the process dies in the
\* middle of a save: the truncated document records nothing.
C33_MonotonicProgress ==
    [][DiskCompletedClips \subseteq DiskCompletedClips']_vars

-----------------------------------------------------------------------------
\* C34: every run of generate() that has started eventually ends; it ends
\* either done, with the completion flag set and the final video written,
\* or failed, with an exception raised after a save that left the
\* checkpoint equal to the RunState; and when the clip loop is over it has
\* handled each clip exactly once, by a skip or by a submission.
C34_Termination ==
    /\ (pc = "generate") ~> (pc \in {"done", "failed"})
    /\ [](pc = "done" =>
            /\ state.completed
            /\ state.final_video_path = PathV(FinalFilmFile)
            /\ log.concat = "ok"
            /\ log.raised = "none")
    /\ []((pc = "failed" /\ state # NoState) =>
            /\ ~(log.raised \in {"none", "init", "load"})
            /\ disk # Corrupt => disk = save(state))
    /\ [](ClipStageOver =>
            /\ Len(log.genCalls) + Cardinality(log.skipped) = Len(state.clips)
            /\ \A k \in DOMAIN state.clips :
                  Submissions(state.clips[k].index)
                    + (IF state.clips[k].index \in log.skipped THEN 1 ELSE 0) = 1)

\* a run ended with an error after its clip loop took three iterations: one
\* skip and two submissions, both failed
C34_Witness ==
    /\ pc = "failed"
    /\ state # NoState
    /\ log.raised = "stitch"
    /\ Len(state.clips) = MaxClips
    /\ Cardinality(log.skipped) = 1
    /\ Len(log.genCalls) = 2
    /\ log.reported = 2

====
